---- MODULE Spec2Model ----
(***************************************************************************)
(* Model of the canvas page of AgenticUIUX: the Home component (page       *)
(* state, handleDeviceChange, handleGenerate, handleScreenUpdate,          *)
(* handleAddScreen), the Canvas coordinate offset and the ScreenFrame      *)
(* drag/resize reports.  One action per event handler or async             *)
(* continuation; React state updates are applied atomically per handler.   *)
(***************************************************************************)
EXTENDS Integers, Sequences, FiniteSets, TLC

VARIABLES deviceType, prompt, code, screens, runs, requests, timers, now, viewport

vars == <<deviceType, prompt, code, screens, runs, requests, timers, now, viewport>>

\* ---------------------------------------------------------------- bounds
MaxScreens == 2
MaxRuns == 2
MaxCanvasScreens == 3

\* ---------------------------------------------------------------- values
\* JavaScript null (html: null, code: null).
Null == 0

\* JavaScript NaN as produced by parseInt on a string without leading digits.
NaN == -1000000

DeviceTypes == {"mobile", "web", "tablet"}

\* Prompt texts typed into the prompt Input, as character sequences: blank, and
\* text with surrounding blanks.
Prompts == {<<" ">>, <<" ", "a", " ">>}

\* CSS sizes found in ref.style.width and ref.style.height after a resize, as
\* character sequences: a pixel width with a height that is not a number.
StyleSizes == {<<<<"3", "0", "0", "p", "x">>, <<"a", "u", "t", "o">>>>}

\* Render-space positions reported by the drag/resize library.
DragPoints == {<<2600, 2650>>}

Digits == {"0", "1", "2", "3", "4", "5", "6", "7", "8", "9"}

DigitVal(c) == CASE c = "0" -> 0 [] c = "1" -> 1 [] c = "2" -> 2 [] c = "3" -> 3
                 [] c = "4" -> 4 [] c = "5" -> 5 [] c = "6" -> 6 [] c = "7" -> 7
                 [] c = "8" -> 8 [] c = "9" -> 9

\* ---------------------------------------------------------------- helpers
RECURSIVE TrimStart(_)
TrimStart(s) == IF s # <<>> /\ Head(s) = " " THEN TrimStart(Tail(s)) ELSE s

RECURSIVE TrimEnd(_)
TrimEnd(s) == IF s # <<>> /\ s[Len(s)] = " " THEN TrimEnd(SubSeq(s, 1, Len(s) - 1)) ELSE s

\* String.prototype.trim
Trim(s) == TrimEnd(TrimStart(s))

RECURSIVE ParseDigits(_, _)
ParseDigits(s, acc) ==
    IF s # <<>> /\ Head(s) \in Digits
    THEN ParseDigits(Tail(s), 10 * acc + DigitVal(Head(s)))
    ELSE acc

\* parseInt(ref.style.width): the leading decimal digits, NaN when there are none.
ParseInt(s) ==
    LET t == TrimStart(s)
    IN IF t # <<>> /\ Head(t) \in Digits THEN ParseDigits(t, 0) ELSE NaN

\* Canvas: x={screen.x + 2500}, y={screen.y + 2500}
toRender(p) == p + 2500

toWorldOffBy500(r) == r - 2000

\* Canvas: onScreenUpdate(screen.id, { x: x - 2500, y: y - 2500 })
toWorld(r) == r - 2500

\* handleDeviceChange: the switch on the device type.
DeviceW(t) == CASE t = "mobile" -> 375 [] t = "tablet" -> 768 [] OTHER -> 1024

DeviceH(t) == CASE t = "mobile" -> 812 [] t = "tablet" -> 1024 [] OTHER -> 768

\* handleAddScreen: w, h, x and y of a screen added when there are len screens.
AddScreenGeometry(len, t) ==
    [x |-> 50 + (len * 20),
     y |-> 50 + (len * 20),
     w |-> IF t = "mobile" THEN 375 ELSE IF t = "tablet" THEN 768 ELSE 1024,
     h |-> IF t = "mobile" THEN 812 ELSE IF t = "tablet" THEN 1024 ELSE 768]

\* Requirements document, 3.3.1: calculateScreenPosition(index, deviceType).
calculateScreenPosition(index, t) ==
    LET isMobile == t = "mobile"
        isTablet == t = "tablet"
        w == IF isMobile THEN 400 ELSE IF isTablet THEN 768 ELSE 1024
        h == IF isMobile THEN 812 ELSE IF isTablet THEN 1024 ELSE 768
        gap == IF isMobile THEN 30 ELSE 70
    IN [x |-> index * (w + gap), y |-> 0, w |-> w, h |-> h]

Geometry(s) == [x |-> s.x, y |-> s.y, w |-> s.w, h |-> s.h]

\* The response of generateComponent for the r-th call of handleGenerate.
CodeOf(r) == r

HtmlOf(r) == r

\* ScreenFrame: what a frame shows for its loading / preview props.
Status(s) == IF s.loading THEN "Generating"
             ELSE IF s.html # Null THEN "Ready" ELSE "NoPreview"

AnyLoading == \E i \in 1..Len(screens) : screens[i].loading

\* ---------------------------------------------------------------- state
\* TransformWrapper: initialScale={1} (in percent, as the zoom label shows it),
\* initialPositionX={-2000}, initialPositionY={-2000}.
InitialViewport == [scale |-> 100, positionX |-> -2000, positionY |-> -2000]

\* TransformWrapper: minScale={0.4}, maxScale={4}, in percent.
ConfiguredScales == {40, InitialViewport.scale, 400}

\* Transforms the pan/zoom library can hold.  The library computes them; the
\* page only configures it and shows state.scale.
Transforms ==
    {[scale |-> s, positionX |-> px, positionY |-> InitialViewport.positionY] :
        s \in ConfiguredScales, px \in {InitialViewport.positionX, -1900}}

MainScreen == [id |-> <<"main", 0>>, name |-> <<"App Screen", 0>>, html |-> Null,
               w |-> 1024, h |-> 768, x |-> 0, y |-> 0, loading |-> FALSE]

Init ==
    /\ deviceType = "web"
    /\ prompt = <<>>
    /\ code = Null
    /\ screens = <<MainScreen>>
    /\ runs = 0
    /\ requests = {}
    /\ timers = {}
    /\ now = 0
    /\ viewport = InitialViewport

\* ---------------------------------------------------------------- actions
\* Input onChange: setPrompt(e.target.value)
SetPrompt(p) ==
    /\ prompt # p
    /\ prompt' = p
    /\ UNCHANGED <<deviceType, code, screens, runs, requests, timers, now, viewport>>

\* handleDeviceChange(type)
handleDeviceChange(t) ==
    /\ deviceType' = t
    /\ screens' = [i \in 1..Len(screens) |-> [screens[i] EXCEPT !.w = DeviceW(t), !.h = DeviceH(t)]]
    /\ UNCHANGED <<prompt, code, runs, requests, timers, now, viewport>>

\* handleGenerate up to its await: guard, setScreens, setCode, request issued.
handleGenerate ==
    /\ Trim(prompt) # <<>>
    /\ runs < MaxRuns
    /\ runs' = runs + 1
    /\ screens' = [i \in 1..Len(screens) |-> [screens[i] EXCEPT !.loading = TRUE, !.html = Null]]
    /\ code' = Null
    /\ requests' = requests \cup {runs + 1}
    /\ UNCHANGED <<deviceType, prompt, timers, now, viewport>>

\* Generate Button: onClick={handleGenerate}, disabled while loading or no prompt.
ClickGenerate ==
    /\ ~(AnyLoading \/ Trim(prompt) = <<>>)
    /\ handleGenerate

\* Prompt Input: onKeyDown={(e) => e.key === "Enter" && handleGenerate()}
EnterGenerate == handleGenerate

\* handleGenerate after the await, response.success true: setCode, setTimeout.
ResolveSuccess(r) ==
    /\ r \in requests
    /\ requests' = requests \ {r}
    /\ code' = CodeOf(r)
    /\ timers' = timers \cup {r}
    /\ UNCHANGED <<deviceType, prompt, screens, runs, now, viewport>>

\* handleGenerate after the await, response.success false: the else branch.
ResolveNoSuccess(r) ==
    /\ r \in requests
    /\ requests' = requests \ {r}
    /\ screens' = [i \in 1..Len(screens) |-> [screens[i] EXCEPT !.loading = FALSE]]
    /\ UNCHANGED <<deviceType, prompt, code, runs, timers, now, viewport>>

ResolveErrorResetsLayout(r) ==
    /\ r \in requests
    /\ requests' = requests \ {r}
    /\ screens' = [i \in 1..Len(screens) |->
                      [screens[i] EXCEPT !.loading = FALSE,
                                         !.x = IF i = 1 THEN 0 ELSE AddScreenGeometry(i - 1, deviceType).x,
                                         !.y = IF i = 1 THEN 0 ELSE AddScreenGeometry(i - 1, deviceType).y]]
    /\ UNCHANGED <<deviceType, prompt, code, runs, timers, now, viewport>>

\* handleGenerate, generateComponent rejects: the catch branch.
ResolveError(r) ==
    /\ r \in requests
    /\ requests' = requests \ {r}
    /\ screens' = [i \in 1..Len(screens) |-> [screens[i] EXCEPT !.loading = FALSE]]
    /\ UNCHANGED <<deviceType, prompt, code, runs, timers, now, viewport>>

TimerFireMainOnly(r) ==
    /\ r \in timers
    /\ timers' = timers \ {r}
    /\ screens' = [i \in 1..Len(screens) |->
                      IF i = 1 THEN [screens[i] EXCEPT !.html = HtmlOf(r), !.loading = FALSE]
                      ELSE screens[i]]
    /\ UNCHANGED <<deviceType, prompt, code, runs, requests, now, viewport>>

\* The setTimeout(..., 100) callback of handleGenerate.
TimerFire(r) ==
    /\ r \in timers
    /\ timers' = timers \ {r}
    /\ screens' = [i \in 1..Len(screens) |-> [screens[i] EXCEPT !.html = HtmlOf(r), !.loading = FALSE]]
    /\ UNCHANGED <<deviceType, prompt, code, runs, requests, now, viewport>>

UpdatePositionNoIdTest(id, x, y) ==
    [i \in 1..Len(screens) |-> [screens[i] EXCEPT !.x = x, !.y = y]]

\* handleScreenUpdate(id, data) for a position report.
UpdatePosition(id, x, y) ==
    [i \in 1..Len(screens) |->
        IF screens[i].id = id THEN [screens[i] EXCEPT !.x = x, !.y = y] ELSE screens[i]]

\* handleScreenUpdate(id, data) for a size and position report.
UpdateSizePosition(id, w, h, x, y) ==
    [i \in 1..Len(screens) |->
        IF screens[i].id = id
        THEN [screens[i] EXCEPT !.w = w, !.h = h, !.x = x, !.y = y] ELSE screens[i]]

\* Canvas onDragStop of the frame of screens[i], reporting render (rx, ry).
OnDragStop(i, rx, ry) ==
    /\ i \in 1..Len(screens)
    /\ screens' = UpdatePosition(screens[i].id, toWorld(rx), toWorld(ry))
    /\ UNCHANGED <<deviceType, prompt, code, runs, requests, timers, now, viewport>>

\* ScreenFrame / Canvas onResizeStop of the frame of screens[i].
OnResizeStop(i, sw, sh, rx, ry) ==
    /\ i \in 1..Len(screens)
    /\ screens' = UpdateSizePosition(screens[i].id, ParseInt(sw), ParseInt(sh),
                                     toWorld(rx), toWorld(ry))
    /\ UNCHANGED <<deviceType, prompt, code, runs, requests, timers, now, viewport>>

\* Date.now() read by handleAddScreen: the millisecond of the previous read, or a
\* later one.  Only equality of the values read matters (they become ids), so
\* the clock counts the distinct milliseconds read after the first read.
ClockReadings == IF Len(screens) = 1 THEN {now} ELSE {now, now + 1}

\* handleAddScreen, reading t from Date.now()
handleAddScreen(t) ==
    /\ now' = t
    /\ LET g == AddScreenGeometry(Len(screens), deviceType)
           newScreen == [id |-> <<"screen", t>>,
                         name |-> <<"Screen", Len(screens) + 1>>,
                         html |-> screens[1].html,
                         w |-> g.w, h |-> g.h, x |-> g.x, y |-> g.y,
                         loading |-> screens[1].loading]
       IN screens' = Append(screens, newScreen)
    /\ UNCHANGED <<deviceType, prompt, code, runs, requests, timers, viewport>>

ZoomInMovesScreens ==
    /\ \E v \in Transforms : v.scale > viewport.scale /\ viewport' = v
    /\ screens' = [i \in 1..Len(screens) |->
                      [screens[i] EXCEPT !.x = screens[i].x * 2, !.w = screens[i].w * 2]]
    /\ UNCHANGED <<deviceType, prompt, code, runs, requests, timers, now>>

\* Zoom In button: onClick={() => zoomIn()}.  The library picks the transform.
ZoomIn ==
    /\ \E v \in Transforms : v.scale > viewport.scale /\ viewport' = v
    /\ UNCHANGED <<deviceType, prompt, code, screens, runs, requests, timers, now>>

\* Zoom Out button: onClick={() => zoomOut()}
ZoomOut ==
    /\ \E v \in Transforms : v.scale < viewport.scale /\ viewport' = v
    /\ UNCHANGED <<deviceType, prompt, code, screens, runs, requests, timers, now>>

\* Reset button: onClick={() => resetTransform()}
ResetTransform ==
    /\ viewport # InitialViewport
    /\ viewport' = InitialViewport
    /\ UNCHANGED <<deviceType, prompt, code, screens, runs, requests, timers, now>>

\* Panning of the TransformWrapper: the library moves the origin.
Pan ==
    /\ \E v \in Transforms : v.scale = viewport.scale /\ v # viewport /\ viewport' = v
    /\ UNCHANGED <<deviceType, prompt, code, screens, runs, requests, timers, now>>

\* Positions a drag or resize of screens[i] can report: anywhere, or unmoved.
ReportPoints(i) == DragPoints \cup {<<toRender(screens[i].x), toRender(screens[i].y)>>}

Next ==
    \/ \E p \in Prompts : SetPrompt(p)
    \/ \E t \in DeviceTypes : handleDeviceChange(t)
    \/ ClickGenerate
    \/ EnterGenerate
    \/ \E r \in 1..MaxRuns : ResolveSuccess(r)
    \/ \E r \in 1..MaxRuns : ResolveNoSuccess(r)
    \/ \E r \in 1..MaxRuns : ResolveError(r)
    \/ \E r \in 1..MaxRuns : TimerFire(r)
    \/ \E i \in 1..Len(screens) : \E p \in ReportPoints(i) : OnDragStop(i, p[1], p[2])
    \/ \E i \in 1..Len(screens) : \E sz \in StyleSizes :
          \E p \in ReportPoints(i) : OnResizeStop(i, sz[1], sz[2], p[1], p[2])
    \/ Len(screens) < MaxScreens /\ \E t \in ClockReadings : handleAddScreen(t)

Spec == Init /\ [][Next]_vars

\* The awaited generateComponent call of run r settles, one way or another.
Resolve(r) == ResolveSuccess(r) \/ ResolveNoSuccess(r) \/ ResolveError(r)

\* The page when every issued request settles and every timer set by
\* setTimeout fires.
SpecFair ==
    /\ Spec
    /\ \A r \in 1..MaxRuns : WF_vars(Resolve(r)) /\ WF_vars(TimerFire(r))

\* The page used without prompt submissions: device changes, added screens,
\* drags and resizes only.
NextCanvas ==
    \/ \E t \in DeviceTypes : handleDeviceChange(t)
    \/ \E i \in 1..Len(screens) : \E p \in ReportPoints(i) : OnDragStop(i, p[1], p[2])
    \/ \E i \in 1..Len(screens) : \E sz \in StyleSizes :
          \E p \in ReportPoints(i) : OnResizeStop(i, sz[1], sz[2], p[1], p[2])
    \/ Len(screens) < MaxCanvasScreens /\ \E t \in ClockReadings : handleAddScreen(t)

SpecCanvas == Init /\ [][NextCanvas]_vars

\* The page with its viewport controls, used without device changes, drags
\* and resizes: prompt submissions, responses, added screens, zoom and pan.
NextViewport ==
    \/ \E p \in Prompts : SetPrompt(p)
    \/ ClickGenerate
    \/ EnterGenerate
    \/ \E r \in 1..MaxRuns : ResolveSuccess(r)
    \/ \E r \in 1..MaxRuns : ResolveNoSuccess(r)
    \/ \E r \in 1..MaxRuns : ResolveError(r)
    \/ \E r \in 1..MaxRuns : TimerFire(r)
    \/ Len(screens) < MaxScreens /\ \E t \in ClockReadings : handleAddScreen(t)
    \/ ZoomIn
    \/ ZoomOut
    \/ ResetTransform
    \/ Pan

SpecViewport == Init /\ [][NextViewport]_vars

\* ---------------------------------------------------------------- claims
Indices == 1..Len(screens)

\* Screen i goes from not loading to loading in this step.
EntersGenerating(i) == ~screens[i].loading /\ screens'[i].loading

\* A failure response of run r is applied (success false, or a rejected request).
ResolveFailure(r) == ResolveNoSuccess(r) \/ ResolveError(r)

\* C1: the screens enter Generating one at a time in index order: a screen
\* starts generating only in a step in which no other screen starts and every
\* earlier screen has already had its response applied (is no longer loading).
C1_SequentialGenerating ==
    [][\A i \in Indices : EntersGenerating(i) =>
          \A j \in Indices : j # i =>
              /\ ~EntersGenerating(j)
              /\ (j < i => ~screens'[j].loading)]_vars

\* C2: in every reachable state at most one generation request is outstanding.
C2_AtMostOneOutstanding == Cardinality(requests) <= 1

\* C3: a failed request ends the generation of one screen only; the other
\* screens that are being generated are not stopped by it.
C3_FailureIsolation ==
    [][\A r \in 1..MaxRuns : ResolveFailure(r) =>
          Cardinality({i \in Indices : screens[i].loading /\ ~screens'[i].loading}) <= 1]_vars

\* C4: the response or deferred update of a run that has been superseded by a
\* newer run is discarded: applying it changes no screen.
C4_StaleRunDiscarded ==
    [][\A r \in 1..MaxRuns :
          (r < runs /\ (ResolveSuccess(r) \/ ResolveFailure(r) \/ TimerFire(r)))
              => screens' = screens]_vars

\* C5: a device change invoked while some screen is Generating changes neither
\* the device type nor the geometry of any screen.
C5_DeviceChangeRejectedWhileGenerating ==
    [][\A t \in DeviceTypes : (AnyLoading /\ handleDeviceChange(t)) =>
          /\ deviceType' = deviceType
          /\ \A i \in Indices : Geometry(screens'[i]) = Geometry(screens[i])]_vars

\* C6: a device change invoked while no screen is Generating gives every screen,
\* in registry order, the geometry calculateScreenPosition(index, newType).
C6_DeviceChangeReplans ==
    [][\A t \in DeviceTypes : (~AnyLoading /\ handleDeviceChange(t)) =>
          \A i \in Indices : Geometry(screens'[i]) = calculateScreenPosition(i - 1, t)]_vars

\* Screen i still has the geometry the page gave it when it was created.
LaidOut(i) ==
    Geometry(screens[i]) = IF i = 1 THEN Geometry(MainScreen)
                           ELSE AddScreenGeometry(i - 1, deviceType)

\* C7: when every screen is where the layout put it and one more screen is laid
\* out, the screens have strictly increasing x and pairwise disjoint
\* x-intervals [x, x + w).
C7_LayoutNonOverlap ==
    [][((\E t \in ClockReadings : handleAddScreen(t)) /\ \A i \in Indices : LaidOut(i)) =>
          \A i \in 1..Len(screens') : \A j \in 1..Len(screens') : i < j =>
              /\ screens'[i].x < screens'[j].x
              /\ screens'[i].x + screens'[i].w <= screens'[j].x]_vars

\* C8: the geometry given to a screen created at index n is
\* x = n * (w + g), y = 0 with the w, h, g preset of the device type
\* (mobile: w = 400, h = 812, g = 30).
C8_PlanFormula ==
    [][(\E t \in ClockReadings : handleAddScreen(t)) =>
          Geometry(screens'[Len(screens')]) =
              calculateScreenPosition(Len(screens), deviceType)]_vars

\* C9: toWorld(toRender(p)) = p for the coordinates of every screen, and what
\* handleScreenUpdate stores for a drag or resize that reports the screen's
\* current render position is exactly the world x, y the screen already has.
C9_OffsetRoundTrip ==
    \A i \in Indices :
        LET s == screens[i]
            wx == toWorld(toRender(s.x))
            wy == toWorld(toRender(s.y))
        IN /\ wx = s.x
           /\ wy = s.y
           /\ UpdatePosition(s.id, wx, wy)[i] = s
           /\ \A sz \in StyleSizes :
                 LET u == UpdateSizePosition(s.id, ParseInt(sz[1]), ParseInt(sz[2]), wx, wy)[i]
                 IN u.x = s.x /\ u.y = s.y

\* C9 witness: the main screen has been resized by a report that gave its
\* render position unchanged, and still has its world position (0, 0).
C9_Witness ==
    /\ screens[1].w = 300
    /\ screens[1].x = 0
    /\ screens[1].y = 0

\* C10: content is absent unless the screen is Ready, and once a failure
\* response has been applied every screen has content absent.
C10_ContentOnlyWhenReady ==
    [][/\ \A i \in 1..Len(screens') :
             Status(screens'[i]) # "Ready" => screens'[i].html = Null
       /\ \A r \in 1..MaxRuns : ResolveFailure(r) =>
             \A i \in Indices : screens'[i].html = Null]_vars

\* C11: a run whose fetch fails has applied nothing to the registry: neither
\* the step that issues the fetch nor the step that handles its failure changes
\* any screen (geometry, status or content).
C11_FailedFetchAppliesNothing ==
    [][(handleGenerate \/ \E r \in 1..MaxRuns : ResolveFailure(r)) =>
          screens' = screens]_vars

\* C12: once a successful fetch has been applied, and before any update of a
\* single screen, every screen of the registry has content absent and the
\* geometry calculateScreenPosition(index, deviceType).
C12_SeededAfterFetch ==
    [][\A r \in 1..MaxRuns : ResolveSuccess(r) =>
          \A i \in 1..Len(screens') :
              /\ screens'[i].html = Null
              /\ Geometry(screens'[i]) = calculateScreenPosition(i - 1, deviceType')]_vars

\* C13: in every reachable state the ids of the screens are pairwise distinct.
C13_UniqueIds ==
    \A i \in Indices : \A j \in Indices : i # j => screens[i].id # screens[j].id

\* A JavaScript number that is greater than 0 (NaN > 0 is false).
IsPositive(v) == v # NaN /\ v > 0

\* C14: in every reachable state every screen has w > 0 and h > 0.
C14_PositiveSize ==
    \A i \in Indices : IsPositive(screens[i].w) /\ IsPositive(screens[i].h)

\* The lifecycle table on what a frame shows: a screen without preview (Pending
\* or Failed) may start generating, a generating screen may become Ready or
\* end without preview (Failed).
LegalTransition(a, b) ==
    \/ a = b
    \/ a = "NoPreview" /\ b = "Generating"
    \/ a = "Generating" /\ b \in {"Ready", "NoPreview"}

\* C15: every status change of a screen follows the lifecycle table.
C15_LifecycleTable ==
    [][\A i \in Indices : LegalTransition(Status(screens[i]), Status(screens'[i]))]_vars

\* The ids of the screens in the registry.
KnownIds == {screens[i].id : i \in Indices}

\* Ids a geometry report may carry.
ReportIds ==
    {<<"main", 0>>, <<"removed", 0>>} \cup {<<"screen", t>> : t \in 0..MaxCanvasScreens}

\* C16: a geometry update (position, or size and position) for an id that no
\* screen has leaves the registry unchanged.
C16_UnknownIdNoOp ==
    \A id \in ReportIds \ KnownIds : \A p \in DragPoints :
        /\ UpdatePosition(id, toWorld(p[1]), toWorld(p[2])) = screens
        /\ \A sz \in StyleSizes :
              UpdateSizePosition(id, ParseInt(sz[1]), ParseInt(sz[2]),
                                 toWorld(p[1]), toWorld(p[2])) = screens

\* C16 witness: a registry with an added screen, and an id of the same form
\* that no screen has.
C16_Witness ==
    /\ <<"screen", 0>> \in KnownIds
    /\ <<"screen", 1>> \notin KnownIds

\* C17: a response with success false is handled as a rejected request is, and
\* after it every screen is out of Generating with content absent.
C17_NoSuccessIsFailure ==
    [][\A r \in 1..MaxRuns : ResolveNoSuccess(r) =>
          /\ ResolveError(r)
          /\ \A i \in 1..Len(screens') :
                ~screens'[i].loading /\ screens'[i].html = Null]_vars

\* A response of run r is applied to the registry.
ApplyResponse(r) == ResolveSuccess(r) \/ ResolveFailure(r) \/ TimerFire(r)

\* C18: applying a response changes the status and content of one screen only,
\* and the geometry of none.
C18_ResponseTouchesOneScreen ==
    [][\A r \in 1..MaxRuns : ApplyResponse(r) =>
          /\ Cardinality({i \in Indices :
                 \/ screens'[i].loading # screens[i].loading
                 \/ screens'[i].html # screens[i].html}) <= 1
          /\ \A i \in Indices : Geometry(screens'[i]) = Geometry(screens[i])]_vars

\* C19: once a run has been cancelled by a newer submission it goes no further
\* than the screen in flight: applying its response changes at most that one
\* screen, and every other screen keeps the status and content it has.
C19_CancelledRunStops ==
    [][\A r \in 1..MaxRuns : (r < runs /\ ApplyResponse(r)) =>
          Cardinality({i \in Indices :
              Status(screens'[i]) # Status(screens[i])}) <= 1]_vars

\* C20: while some screen is Generating no submission is accepted: no run is
\* started and no request is issued.
C20_NoSubmissionWhileGenerating ==
    [][AnyLoading => (runs' = runs /\ requests' \subseteq requests)]_vars

\* C21: handleAddScreen appends one screen at the end of the registry (at index
\* = the length before), with an id that no existing screen has, and leaves
\* every existing screen as it was, in the same order.
C21_AddScreenAppends ==
    [][(\E t \in ClockReadings : handleAddScreen(t)) =>
          /\ Len(screens') = Len(screens) + 1
          /\ SubSeq(screens', 1, Len(screens)) = screens
          /\ screens'[Len(screens')].id \notin KnownIds]_vars

\* A viewport operation: zoom in, zoom out, reset or pan.
ViewportOp == ZoomIn \/ ZoomOut \/ ResetTransform \/ Pan

\* C23: a viewport operation changes no screen of the registry (id, order,
\* geometry, status, content), and what Canvas renders for a screen through
\* the offset is computed from the registry without changing it: the stored
\* world position is still the one the rendered position maps back to.
C23_ViewportLeavesRegistry ==
    [][ViewportOp =>
          /\ screens' = screens
          /\ \A i \in Indices :
                /\ toWorld(toRender(screens'[i].x)) = screens[i].x
                /\ toWorld(toRender(screens'[i].y)) = screens[i].y]_vars

\* C23 witness: the viewport has been zoomed and panned away from its initial
\* transform while a screen is Generating and the registry holds an added
\* screen.
C23_Witness ==
    /\ viewport.scale # InitialViewport.scale
    /\ viewport.positionX # InitialViewport.positionX
    /\ Len(screens) = 2
    /\ screens[1].loading

\* C24: when every request settles and every deferred update fires, a state in
\* which some screen is Generating is always followed by a state in which no
\* screen is Generating.
C24_GeneratingEnds == AnyLoading ~> ~AnyLoading

\* C24 witness: every run has been submitted and has settled, and neither the
\* main screen nor the added screen is Generating.
C24_Witness ==
    /\ runs = MaxRuns
    /\ requests = {}
    /\ timers = {}
    /\ Len(screens) = 2
    /\ ~AnyLoading

\* A step in which handleScreenUpdate stores a reported geometry: the registry
\* keeps its length and the device type, and some screen's x, y, w or h changes.
StoresReport ==
    /\ Len(screens') = Len(screens)
    /\ deviceType' = deviceType
    /\ \E i \in Indices : Geometry(screens'[i]) # Geometry(screens[i])

\* A step in which a response or its deferred update is applied: a request
\* settles or a timer fires.
AppliesResponse == (runs' = runs /\ requests' # requests) \/ timers' # timers

\* C25: a drag or resize changes no screen's status or content, also while a
\* request is in flight, and applying a response or its deferred update
\* afterwards keeps the x, y, w, h every screen has at that moment, so the
\* dragged or resized geometry is not lost.
C25_DragSurvivesResponse ==
    [][/\ StoresReport =>
             \A i \in Indices :
                 /\ screens'[i].loading = screens[i].loading
                 /\ screens'[i].html = screens[i].html
       /\ AppliesResponse =>
             /\ Len(screens') = Len(screens)
             /\ \A i \in Indices : Geometry(screens'[i]) = Geometry(screens[i])]_vars

\* C25 witness: the main screen shows the content of a response and has the
\* dragged position and the resized width.
C25_Witness ==
    /\ screens[1].x = toWorld(2600)
    /\ screens[1].y = toWorld(2650)
    /\ screens[1].w = 300
    /\ Status(screens[1]) = "Ready"
    /\ requests = {}
    /\ timers = {}

\* No request is outstanding and no deferred update is pending.
Quiescent == requests = {} /\ timers = {}

\* C26: in every quiescent state the code panel's code and the first screen's
\* content come from the same response: both are absent, or they are the code
\* and the preview of one run.
C26_CodeMatchesContent ==
    Quiescent =>
        \/ code = Null /\ screens[1].html = Null
        \/ \E r \in 1..MaxRuns : code = CodeOf(r) /\ screens[1].html = HtmlOf(r)

TypeOK ==
    /\ deviceType \in DeviceTypes
    /\ prompt \in Prompts \cup {<<>>}
    /\ runs \in 0..MaxRuns
    /\ requests \subseteq 1..MaxRuns
    /\ timers \subseteq 1..MaxRuns
    /\ Len(screens) \in 1..(MaxScreens + MaxCanvasScreens)
    /\ viewport \in Transforms
====
